---- MODULE Spec2Model ----
(***************************************************************************)
(* The looper Stepper of emergent: a recursive nested-loop executor        *)
(* (Run -> Epoch -> Trial ...) that can be stopped at a time level,        *)
(* stepped a number of iterations, and resumed by calling Run() again.     *)
(*                                                                         *)
(* The recursion of runLevel is modelled by an explicit stack of frames,   *)
(* frame i being the call runLevel(i-1).  Hooks are opaque callbacks: a    *)
(* firing is recorded as an event in the history variable log.             *)
(***************************************************************************)
EXTENDS Integers, Sequences, FiniteSets, TLC

\* ------------------------------------------------------------------ bounds
MaxIter == 2        \* largest Ctr.Max drawn by Init
NumFuncs == 2       \* hooks registered in every hook list
MaxReq == 2         \* stop/step requests made in one behaviour
MaxStepN == 2       \* largest iteration count of a step request
MaxPhases == 3      \* longest phase list of the phaseLogic specification
MaxDur == 3         \* largest phase Duration of the phaseLogic specification
MaxTick == 9        \* largest counter value of the phaseLogic specification
MaxItems == 3       \* most items added to a Logs
MaxRows == 2        \* most rows of a log table
MaxLines == 3       \* a log file takes a row while it has fewer lines
UintBits == 4       \* width in bits of the uint32 arithmetic of ringidx
MaxRing == 2        \* most records a NetData is set up to store
MaxRast == 3        \* raster counters passed to Record are below MaxRast
MaxTrials == 4      \* most rows of the table of an MPIFixedTable
MaxEpochs == 2      \* largest Epoch counter and Epoch.Max of an MPIFixedTable

\* ------------------------------------------------------------ configuration
\* etime.Times values: the levels the drawn stacks are built from, outermost
\* first, and one timescale that is in no stack.
StackTimes == <<"Run", "Epoch">>
NoSuchTime == "Expt"
\* etime.Modes
Modes == {"Train", "Test"}

\* LoopStructure: Counter.Max, Phases (their Durations), the length of the
\* OnStart / Main / OnEnd and of every phase hook list, and IsDone: a map from
\* predicate name to the predicate.  A predicate is modelled by the iteration
\* k after which it returns true (true iff Counter.Cur + 1 >= k).
LoopStructure(max, phases, isDone) ==
    [Max |-> max, Phases |-> phases, NFuncs |-> NumFuncs, IsDone |-> isDone]

\* Stack: Order (outermost first) and Loops, one LoopStructure per time.
Stack(order, loops) == [Order |-> order, Loops |-> loops]

Range(s) == {s[i] : i \in 1..Len(s)}

\* The phase lists and IsDone maps a level of a drawn stack can have: no
\* predicate, or one that returns true after iteration k (never, when k is
\* beyond the level's Max).
PhaseChoices == {<<>>, <<1, 2>>}
NoPreds == [n \in {} |-> 0]
IsDoneChoices == {NoPreds} \cup {[n \in {"done"} |-> k] : k \in 1..(MaxIter + 1)}

\* The stacks Init draws the Train stack from: a prefix of StackTimes, every
\* level bounded by a Max in 1..MaxIter, all levels sharing one phase list
\* and one IsDone map.
StackConfigs ==
    { Stack(SubSeq(StackTimes, 1, n),
            [t \in Range(SubSeq(StackTimes, 1, n)) |->
                LoopStructure(mx[t], ph, isd)]) :
        n \in 1..Len(StackTimes), mx \in [Range(StackTimes) -> 1..MaxIter],
        ph \in PhaseChoices, isd \in IsDoneChoices }

\* A three-level stack: one iteration of Run, MaxIter of Epoch and of Trial.
DeepStack ==
    Stack(<<"Run", "Epoch", "Trial">>,
          [t \in {"Run", "Epoch", "Trial"} |->
              LoopStructure(IF t = "Run" THEN 1 ELSE MaxIter, <<1>>, NoPreds)])

\* The Test stack is fixed.
TestStack ==
    Stack(<<"Epoch", "Trial">>,
          [t \in {"Epoch", "Trial"} |-> LoopStructure(1, <<1>>, NoPreds)])

VARIABLES
    \* Stepper fields
    StopFlag, StopNext, StopLevel, StepIterations, Loops, Mode,
    lastStoppedLevel, internalStop,
    \* Counter.Cur of every loop of every stack
    Cur,
    \* the call stack of runLevel and the value its last return passed up
    frames, ret,
    \* history: the hooks fired in the current pass through the stack, the
    \* number of stop and of step requests made, and the step request last
    \* made with no run in progress
    log, nStop, nStep, step,
    \* Logs fields: the items in the order added, and the table of each scope
    Items, Tables,
    \* history: the last logging call made, and the Write functions it called
    call, written,
    \* a ringidx.FIx, and history: the last call made on it
    fi, ficall,
    \* the NetData fields Record reads and writes
    nd,
    \* an MPIFixedTable's fields, and history: what its last call did
    ft, fthist

looperVars == <<StopFlag, StopNext, StopLevel, StepIterations, Loops, Mode,
                lastStoppedLevel, internalStop, Cur, frames, ret, log, nStop,
                nStep, step>>

logsVars == <<Items, Tables, call, written>>

ringVars == <<fi, ficall>>

netVars == <<nd>>

envVars == <<ft, fthist>>

otherVars == <<ringVars, netVars, envVars>>

vars == <<looperVars, logsVars, otherVars>>

stepperVars == <<StopFlag, StopNext, StopLevel, StepIterations,
                 lastStoppedLevel, internalStop>>

\* ---------------------------------------------------------------- helpers
\* st := stepper.Loops.Stacks[stepper.Mode]
st == Loops[Mode]

\* The frame on top of the call stack runs runLevel(currentLevel).
currentLevel == Len(frames) - 1
Running == frames # <<>>
TopPc == frames[Len(frames)]
\* time := st.Order[currentLevel]; loop := st.Loops[time]; ctr := loop.Counter
time == st.Order[currentLevel + 1]
loop == st.Loops[time]
ctrCur == Cur[Mode][time]

\* The counters of levels 0..d of the running stack, as a hook sees them.
CtrVec(d) == [i \in 1..(d + 1) |-> Cur[Mode][st.Order[i]]]

\* One firing of hook j of a list: the list's kind, the level, the counters
\* of the level and its enclosing levels, the phase (0: not a phase hook).
Ev(kind, d, cv, p, j) == <<kind, d, cv, p, j>>

\* for _, fun := range list { fun.Func() }
FireList(kind, d, cv, p, n) == [j \in 1..n |-> Ev(kind, d, cv, p, j)]

\* ------------------------------------------------------------- phaseLogic
\* if ctr.Cur == (amount - phase.Duration)       (amount already advanced)
PhaseStartCond(cur, amount, duration) == cur = amount - duration
\* if ctr.Cur < amount
PhaseTickCond(cur, amount, duration) == cur < amount
\* Mutant: the end of a phase is taken one tick late.
PhaseEndCond_AtAmount(cur, amount, duration) == cur = amount

\* if ctr.Cur == amount-1
PhaseEndCond(cur, amount, duration) == cur = amount - 1

\* The body of the range loop for phase i and on, amount being the sum of
\* the Durations of the phases before i.
RECURSIVE phaseFrom(_, _, _, _, _, _, _)
phaseFrom(phases, i, amount, cur, d, cv, n) ==
    IF i > Len(phases) THEN <<>>
    ELSE LET amt == amount + phases[i]
             s == IF PhaseStartCond(cur, amt, phases[i])
                  THEN FireList("PhaseStart", d, cv, i, n) ELSE <<>>
             t == IF PhaseTickCond(cur, amt, phases[i])
                  THEN FireList("OnMillisecondEnd", d, cv, i, n) ELSE <<>>
             e == IF PhaseEndCond(cur, amt, phases[i])
                  THEN FireList("PhaseEnd", d, cv, i, n) ELSE <<>>
         IN  s \o t \o e \o phaseFrom(phases, i + 1, amt, cur, d, cv, n)

\* func (stepper *Stepper) phaseLogic(loop *LoopStructure): the hooks it
\* fires for a loop whose counter is cur.
phaseLogic(lp, cur, d, cv) == phaseFrom(lp.Phases, 1, 0, cur, d, cv, lp.NFuncs)

\* ---------------------------------------------------------------- Ctr
\* Mutant: the counter is over any Max it has reached, positive or not.
IsOverMax_AnyMax(cur, max) == cur >= max

\* func (ct *Ctr) IsOverMax() bool
IsOverMax(cur, max) == max > 0 /\ cur >= max

\* func (ct *Ctr) Incr(): ct.Cur++
Incr(cur) == cur + 1

\* func (ct *Ctr) Set(cur int) bool: Cur after the call and the value returned.
Set(cur, v) ==
    IF cur = v THEN [Cur |-> cur, changed |-> FALSE]
    ELSE [Cur |-> v, changed |-> TRUE]

\* --------------------------------------------------------------- runLevel
\* Mutant: a negative Max does not make the loop run.
LoopCond_NoForever(cur, max) == cur < max

\* Mutant: the loop runs one iteration more.
LoopCond_Inclusive(cur, max) == cur <= max \/ max < 0

\* Mutant: the loop stops one iteration early.
LoopCond_OneShort(cur, max) == cur + 1 < max \/ max < 0

\* for ctr.Cur < ctr.Max || ctr.Max < 0
LoopCond(cur, max) == cur < max \/ max < 0

\* stopAtLevel := st.Order[currentLevel] == stepper.StopLevel
stopAtLevel == time = StopLevel

\* if stepper.StopFlag && stopAtLevel { internalStop = true; lastStoppedLevel = currentLevel }
StopDetected == StopFlag /\ stopAtLevel

\* Mutant: the level of the interruption is not recorded.
StoppedLevel_Cleared(detected, level, last) == -1

\* stepper.lastStoppedLevel = currentLevel (line 58), when a stop is detected.
StoppedLevel(detected, level, last) == IF detected THEN level ELSE last

\* Mutant: the halt leaves the stop flag as it is.
StopFlagAfterHalt_Kept(flag) == flag

\* stepper.StopFlag = false (line 62)
StopFlagAfterHalt(flag) == FALSE

\* Mutant: only the level that detects the stop halts.
Halting_OnlyDetected == StopDetected

\* Mutant: the stop request is not detected at its level.
Halting_NoDetect == internalStop

\* if stepper.internalStop  (after the detection above)
Halting == internalStop \/ StopDetected

\* if stepper.StopNext && st.Order[currentLevel] == stepper.StopLevel
StepCounted == StopNext /\ time = StopLevel

\* stepper.StepIterations -= 1; if stepper.StepIterations <= 0
StepExhausted(iterations) == iterations - 1 <= 0

\* lastStoppedLevel after the step block (line 70 sets it to -1)
LastStoppedAfterStep ==
    IF StepCounted /\ StepExhausted(StepIterations) THEN -1 ELSE lastStoppedLevel

\* Mutant: the level of the interruption does not start either.
StartNeeded_Strict(level, lastStopped) == level > lastStopped

\* if currentLevel >= stepper.lastStoppedLevel
StartNeeded(level, lastStopped) == level >= lastStopped

\* Mutant: the level goes on as if the inner call had completed.
RunComplete_Always(r) == TRUE

\* if runComplete
RunComplete(r) == r

\* Mutant: the counter is not reset when its loop is done.
ExitCur_NoReset(cur, stopped) == cur

\* exitLoop: if !stepper.internalStop { ctr.Cur = 0 }
ExitCur(cur, stopped) == IF ~stopped THEN 0 ELSE cur

\* Mutant: a level whose loop is done reports the run interrupted.
ExitLoopReturn_False == FALSE

\* exitLoop: ...; return true (line 115)
ExitLoopReturn == TRUE

\* A predicate registered to return true after its k-th evaluation in a pass
\* of its level: true iff Cur + 1 >= k.
PredTrue(k, cur) == cur + 1 >= k

\* The orders in which range visits the keys of a map: any.
Orders(S) == {o \in [1..Cardinality(S) -> S] : \A a \in S : \E i \in DOMAIN o : o[i] = a}

\* for name, fun := range loop.IsDone { if fun() { ...; goto exitLoop } }:
\* the index in order o of the first predicate that returns true, 0 if none.
FirstTrue(isDone, o, cur) ==
    IF \E i \in DOMAIN o : PredTrue(isDone[o[i]], cur)
    THEN CHOOSE i \in DOMAIN o :
            /\ PredTrue(isDone[o[i]], cur)
            /\ \A h \in 1..(i - 1) : ~PredTrue(isDone[o[h]], cur)
    ELSE 0

\* Mutant: a predicate that returns true does not end the loop.
IsDoneTrue_Ignored(f) == FALSE

\* if fun() { ctr.Cur = 0; goto exitLoop }: f is the index of the first
\* predicate that returned true, 0 if none did.
IsDoneTrue(f) == f # 0

\* The predicates evaluated, in order o: all, or up to the first true one.
PredEvents(isDone, o, cur, d, cv) ==
    LET f == FirstTrue(isDone, o, cur)
        last == IF f = 0 THEN Len(o) ELSE f
    IN  [i \in 1..last |-> Ev("IsDone", d, cv, 0, o[i])]

\* return: the frame is popped and the value passed to the caller.
Return(value) ==
    /\ frames' = SubSeq(frames, 1, Len(frames) - 1)
    /\ ret' = value

\* runComplete := stepper.runLevel(level): past the bottom of the stack the
\* call returns true at once (lines 47-49), else a new frame starts its loop.
CallRunLevel(callerFrames, level) ==
    IF level >= Len(st.Order)
    THEN /\ frames' = callerFrames
         /\ ret' = TRUE
    ELSE /\ frames' = Append(callerFrames, "loop")
         /\ UNCHANGED ret

\* ---------------------------------------------------------------- history
\* Depth of time t in the running stack's Order (0-based), -1 if absent.
DepthOf(t) ==
    IF t \in Range(st.Order) THEN (CHOOSE i \in 1..Len(st.Order) : st.Order[i] = t) - 1
    ELSE -1

\* The stepper is idle (the last pass completed, or none was made) or
\* stopped at the level of t.
IdleOrStoppedAt(t) ==
    ~Running /\ (ret \/ lastStoppedLevel = DepthOf(t))

\* step: whether the last request was a step made while idle or stopped at
\* its level, its timescale and count, the length of the log it was made at,
\* the Run() calls made since, and whether StopFlag was set when it was made.
NoStep == [on |-> FALSE, t |-> NoSuchTime, n |-> 0, at |-> 0, runs |-> 0,
           stop |-> FALSE]

\* No logging call has been made.
NoCall == [op |-> "none", sk |-> <<>>, row |-> 0, rows |-> 0, after |-> 0,
           items |-> 0]

\* A zero-valued Logs: no items, a nil Tables map.
NoLogs ==
    /\ Items = <<>>
    /\ Tables = <<>>
    /\ call = NoCall
    /\ written = <<>>

\* A zero-valued FIx on which no call was made.
NoFIxCall == [op |-> "none", zi |-> 0, len |-> 0, arg |-> 0, res |-> 0]
NoFIx ==
    /\ fi = [Zi |-> 0, Len |-> 0]
    /\ ficall = NoFIxCall

\* A zero-valued NetData.
NoNetData ==
    nd = [Ring |-> [StIdx |-> 0, Len |-> 0, Max |-> 0], RastCtr |-> 0,
          RasterCtrs |-> <<>>, RasterMap |-> <<>>]

\* A zero-valued MPIFixedTable on which no call was made.
NoEnvCall == [op |-> "none", hit |-> FALSE, permuted |-> FALSE]
NoEnv ==
    /\ ft = [np |-> 0, Order |-> <<>>, TrialSt |-> 0, TrialEd |-> 0,
             Trial |-> [Cur |-> 0, Max |-> 0], Epoch |-> [Cur |-> 0, Max |-> 0]]
    /\ fthist = NoEnvCall

NoOthers == NoFIx /\ NoNetData /\ NoEnv

\* ---------------------------------------------------------------- actions
\* func (stepper *Stepper) Init(loopman *LoopManager), on a new LoopManager
\* whose counters are at 0 and a zero-valued Stepper.
InitStack(s) ==
    /\ Loops = [m \in Modes |-> IF m = "Train" THEN s ELSE TestStack]
    /\ StopLevel = "Run"
    /\ Mode = "Train"
    /\ lastStoppedLevel = -1
    /\ StopFlag = FALSE
    /\ StopNext = FALSE
    /\ StepIterations = 0
    /\ internalStop = FALSE
    /\ Cur = [m \in Modes |-> [t \in Range(Loops[m].Order) |-> 0]]
    /\ frames = <<>>
    /\ ret = TRUE
    /\ log = <<>>
    /\ nStop = 0
    /\ nStep = 0
    /\ step = NoStep
    /\ NoLogs
    /\ NoOthers

Init == \E s \in StackConfigs : InitStack(s)

\* The stepper reads the request fields only at the top of a loop pass (lines
\* 55-72): a request made at any other moment of a run acts as the same
\* request made right before the next pass, and is drawn there.
RequestPoint == IF Running THEN TopPc = "loop" ELSE TRUE

\* The caller sets StopFlag and StopLevel: stop at the next iteration of t.
RequestStop(t) ==
    /\ nStop + nStep < MaxReq
    /\ RequestPoint
    /\ StopFlag' = TRUE
    /\ StopLevel' = t
    /\ nStop' = nStop + 1
    /\ step' = NoStep
    /\ UNCHANGED <<StopNext, StepIterations, Loops, Mode, lastStoppedLevel,
                   internalStop, Cur, frames, ret, log, nStep>>
    /\ UNCHANGED <<logsVars, otherVars>>

\* The caller sets StopNext, StopLevel and StepIterations: n iterations of t.
RequestStep(t, n) ==
    /\ nStop + nStep < MaxReq
    /\ RequestPoint
    /\ StopNext' = TRUE
    /\ StopLevel' = t
    /\ StepIterations' = n
    /\ nStep' = nStep + 1
    /\ step' = IF IdleOrStoppedAt(t) /\ t \in Range(st.Order)
               THEN [on |-> TRUE, t |-> t, n |-> n,
                     at |-> IF ret THEN 0 ELSE Len(log), runs |-> 0,
                     stop |-> StopFlag]
               ELSE NoStep
    /\ UNCHANGED <<StopFlag, Loops, Mode, lastStoppedLevel,
                   internalStop, Cur, frames, ret, log, nStop>>
    /\ UNCHANGED <<logsVars, otherVars>>

\* func (stepper *Stepper) Run(): called when no run is in progress.  The
\* log starts anew when the previous pass through the stack had completed.
Run ==
    /\ ~Running
    /\ internalStop' = FALSE
    /\ log' = IF ret THEN <<>> ELSE log
    /\ step' = IF step.on THEN [step EXCEPT !.runs = IF @ < 2 THEN @ + 1 ELSE @] ELSE step
    /\ CallRunLevel(<<>>, 0)
    /\ UNCHANGED <<StopFlag, StopNext, StopLevel, StepIterations, Loops, Mode,
                   lastStoppedLevel, Cur, nStop, nStep>>
    /\ UNCHANGED <<logsVars, otherVars>>

\* Lines 54-64, the loop is entered and a stop is in force: return false.
Suspend ==
    /\ Running /\ TopPc = "loop"
    /\ LoopCond(ctrCur, loop.Max)
    /\ Halting
    /\ internalStop' = TRUE
    /\ lastStoppedLevel' = StoppedLevel(StopDetected, currentLevel, lastStoppedLevel)
    /\ StopFlag' = StopFlagAfterHalt(StopFlag)
    /\ Return(FALSE)
    /\ UNCHANGED <<StopNext, StopLevel, StepIterations, Loops, Mode, Cur, log,
                   nStop, nStep, step>>
    /\ UNCHANGED <<logsVars, otherVars>>

\* Lines 54-87, the loop is entered and no stop is in force: the step count,
\* the OnStart hooks, phaseLogic, and the call of the next level.
Iterate ==
    /\ Running /\ TopPc = "loop"
    /\ LoopCond(ctrCur, loop.Max)
    /\ ~Halting
    /\ LET exhausted == StepCounted /\ StepExhausted(StepIterations)
           start == StartNeeded(currentLevel, LastStoppedAfterStep)
           cv == CtrVec(currentLevel)
       IN  /\ StepIterations' = IF StepCounted THEN StepIterations - 1 ELSE StepIterations
           /\ StopNext' = IF exhausted THEN FALSE ELSE StopNext
           /\ StopFlag' = IF exhausted THEN TRUE ELSE StopFlag
           /\ lastStoppedLevel' = IF start THEN -1 ELSE LastStoppedAfterStep
           /\ log' = log \o (IF start THEN FireList("OnStart", currentLevel, cv, 0, loop.NFuncs)
                                      ELSE <<>>)
                         \o phaseLogic(loop, ctrCur, currentLevel, cv)
           /\ CallRunLevel([frames EXCEPT ![Len(frames)] = "wait"], currentLevel + 1)
    /\ UNCHANGED <<StopLevel, Loops, Mode, internalStop, Cur, nStop, nStep, step>>
    /\ UNCHANGED <<logsVars, otherVars>>

\* Lines 89-107 and, through goto exitLoop, 110-115: the inner call has
\* returned.
AfterInner ==
    /\ Running /\ TopPc = "wait"
    /\ IF RunComplete(ret)
       THEN \E o \in Orders(DOMAIN loop.IsDone) :
              LET cv == CtrVec(currentLevel)
                  done == IsDoneTrue(FirstTrue(loop.IsDone, o, ctrCur))
              IN  /\ log' = log \o FireList("Main", currentLevel, cv, 0, loop.NFuncs)
                                \o FireList("OnEnd", currentLevel, cv, 0, loop.NFuncs)
                                \o PredEvents(loop.IsDone, o, ctrCur, currentLevel, cv)
                  /\ IF done
                     THEN /\ Cur' = [Cur EXCEPT ![Mode][time] = ExitCur(0, internalStop)]
                          /\ Return(ExitLoopReturn)
                     ELSE /\ Cur' = [Cur EXCEPT ![Mode][time] = ctrCur + 1]
                          /\ frames' = [frames EXCEPT ![Len(frames)] = "loop"]
                          /\ UNCHANGED ret
       ELSE /\ frames' = [frames EXCEPT ![Len(frames)] = "loop"]
            /\ UNCHANGED <<Cur, log, ret>>
    /\ UNCHANGED <<StopFlag, StopNext, StopLevel, StepIterations, Loops, Mode,
                   lastStoppedLevel, internalStop, nStop, nStep, step>>
    /\ UNCHANGED <<logsVars, otherVars>>

\* Lines 54 and 110-115: the loop condition fails, the loop is done.
ExitLoop ==
    /\ Running /\ TopPc = "loop"
    /\ ~LoopCond(ctrCur, loop.Max)
    /\ Cur' = [Cur EXCEPT ![Mode][time] = ExitCur(ctrCur, internalStop)]
    /\ Return(ExitLoopReturn)
    /\ UNCHANGED <<StopFlag, StopNext, StopLevel, StepIterations, Loops, Mode,
                   lastStoppedLevel, internalStop, log, nStop, nStep, step>>
    /\ UNCHANGED <<logsVars, otherVars>>

\* The timescales a request names: those of the stack.
RequestTimes == Range(st.Order)

Exec == Run \/ Suspend \/ Iterate \/ AfterInner \/ ExitLoop

Next ==
    \/ \E t \in RequestTimes : RequestStop(t)
    \/ \E t \in RequestTimes, n \in 1..MaxStepN : RequestStep(t, n)
    \/ Run
    \/ Suspend
    \/ Iterate
    \/ AfterInner
    \/ ExitLoop

Spec == Init /\ [][Next]_vars

\* The same stepper on the three-level stack.
InitDeep == InitStack(DeepStack)

SpecDeep == InitDeep /\ [][Next]_vars

\* --------------------------------------- requests at an unknown timescale
\* The stepper when every stop request names a timescale that is not in the
\* stack, step requests naming any timescale.
NextUnknown ==
    \/ RequestStop(NoSuchTime)
    \/ \E t \in RequestTimes \cup {NoSuchTime}, n \in 1..MaxStepN : RequestStep(t, n)
    \/ Exec

SpecUnknown == Init /\ [][NextUnknown]_vars

\* ------------------------------------------------------ stop requests only
\* The stepper when stop requests are the only requests made; once called,
\* Run() keeps executing.
NextStop ==
    \/ \E t \in RequestTimes : RequestStop(t)
    \/ Exec

SpecStop == Init /\ [][NextStop]_vars /\ WF_vars(Exec)

\* ------------------------------------------------- steps of a low count
\* The stepper when the only requests made are steps with a count of 1, 0 or
\* below.
LowCounts == (1 - MaxStepN)..1

NextLowStep ==
    \/ \E t \in RequestTimes, n \in LowCounts : RequestStep(t, n)
    \/ Exec

SpecLowStep == Init /\ [][NextLowStep]_vars

\* ------------------------------------------------------ selecting a mode
\* The caller sets stepper.Mode between two calls of Run(): the stack of the
\* other mode is selected for the first time.  The log starts anew with the
\* newly selected stack.
SetMode(m) ==
    /\ ~Running
    /\ Mode = "Train"
    /\ m # Mode
    /\ Mode' = m
    /\ log' = <<>>
    /\ step' = NoStep
    /\ UNCHANGED <<StopFlag, StopNext, StopLevel, StepIterations, Loops,
                   lastStoppedLevel, internalStop, Cur, frames, ret, nStop,
                   nStep>>
    /\ UNCHANGED <<logsVars, otherVars>>

NextMode ==
    \/ \E t \in RequestTimes : RequestStop(t)
    \/ \E t \in RequestTimes, n \in 1..MaxStepN : RequestStep(t, n)
    \/ \E m \in Modes : SetMode(m)
    \/ Exec

SpecMode == Init /\ [][NextMode]_vars

\* ------------------------------------------------- runs without requests
\* The stepper when no stop or step request is ever made: no stop can be in
\* force, so the return of lines 60-64 is never taken.
NextRun == Run \/ Iterate \/ AfterInner \/ ExitLoop

\* Once called, Run() keeps executing: there is one thread of control.
SpecRun == Init /\ [][NextRun]_vars /\ WF_vars(NextRun)

\* ------------------------------------------------------ unbounded levels
\* Stacks with at least one level of negative Max (loop forever), every level
\* having a predicate that returns true after iteration k.
UnboundedConfigs ==
    { Stack(SubSeq(StackTimes, 1, n),
            [t \in Range(SubSeq(StackTimes, 1, n)) |->
                LoopStructure(mx[t], ph, [nm \in {"done"} |-> k])]) :
        n \in 1..Len(StackTimes), mx \in [Range(StackTimes) -> {-1, MaxIter}],
        ph \in PhaseChoices, k \in 1..(MaxIter + 1) }

InitUnbounded ==
    \E s \in UnboundedConfigs :
        /\ \E t \in Range(s.Order) : s.Loops[t].Max < 0
        /\ InitStack(s)

\* Run() on such a stack, no request being made.
SpecUnbounded == InitUnbounded /\ [][NextRun]_vars /\ WF_vars(NextRun)

\* ---------------------------------------------------- several predicates
\* Stacks whose levels have two named termination predicates, "a" and "b",
\* each returning true after an iteration of its own.
PredConfigs ==
    { Stack(SubSeq(StackTimes, 1, n),
            [t \in Range(SubSeq(StackTimes, 1, n)) |->
                LoopStructure(mx[t], <<>>, isd)]) :
        n \in 1..Len(StackTimes), mx \in [Range(StackTimes) -> 1..MaxIter],
        isd \in [{"a", "b"} -> 1..(MaxIter + 1)] }

InitPreds == \E s \in PredConfigs : InitStack(s)

SpecPreds == InitPreds /\ [][Next]_vars

\* ------------------------------------------- predicates of their own
\* Two-level stacks whose levels each have an IsDone map of their own: the
\* inner level MaxIter iterations and a predicate, the outer level any Max
\* and no predicate or one.
EarlyConfigs ==
    { Stack(StackTimes,
            [t \in Range(StackTimes) |->
                IF t = StackTimes[1] THEN LoopStructure(mx, <<>>, isd)
                ELSE LoopStructure(MaxIter, <<>>, [nm \in {"done"} |-> k])]) :
        mx \in 1..MaxIter, isd \in IsDoneChoices, k \in 1..(MaxIter + 1) }

InitEarly == \E s \in EarlyConfigs : InitStack(s)

SpecEarly == InitEarly /\ [][Next]_vars

\* ------------------------------------------------------- Ctr on its own
\* A counter with any Cur in 0..MaxTick and any Max in -1..MaxIter+1, on
\* which one method of Ctr is about to be called.
InitCtr ==
    /\ \E mx \in -1..(MaxIter + 1) :
         Loops = [m \in Modes |->
                    Stack(<<"Cycle">>,
                          [t \in {"Cycle"} |-> LoopStructure(mx, <<>>, NoPreds)])]
    /\ \E c \in 0..MaxTick : Cur = [m \in Modes |-> [t \in {"Cycle"} |-> c]]
    /\ StopLevel = "Run"
    /\ Mode = "Train"
    /\ lastStoppedLevel = -1
    /\ StopFlag = FALSE
    /\ StopNext = FALSE
    /\ StepIterations = 0
    /\ internalStop = FALSE
    /\ frames = <<"Ctr">>
    /\ ret = TRUE
    /\ log = <<>>
    /\ nStop = 0
    /\ nStep = 0
    /\ step = NoStep
    /\ NoLogs
    /\ NoOthers

\* The call made is recorded in log: the method, Cur and Max before the call
\* and the argument; ret takes the value a method returns.
CtrCall(op, v) == <<op, Cur[Mode]["Cycle"], st.Loops["Cycle"].Max, v>>

\* ctr.Incr()
IncrCall ==
    /\ frames = <<"Ctr">>
    /\ Cur' = [Cur EXCEPT ![Mode]["Cycle"] = Incr(@)]
    /\ log' = <<CtrCall("Incr", 0)>>
    /\ frames' = <<>>
    /\ UNCHANGED <<StopFlag, StopNext, StopLevel, StepIterations, Loops, Mode,
                   lastStoppedLevel, internalStop, ret, nStop, nStep, step>>
    /\ UNCHANGED <<logsVars, otherVars>>

\* ctr.IsOverMax()
IsOverMaxCall ==
    /\ frames = <<"Ctr">>
    /\ ret' = IsOverMax(Cur[Mode]["Cycle"], st.Loops["Cycle"].Max)
    /\ log' = <<CtrCall("IsOverMax", 0)>>
    /\ frames' = <<>>
    /\ UNCHANGED <<StopFlag, StopNext, StopLevel, StepIterations, Loops, Mode,
                   lastStoppedLevel, internalStop, Cur, nStop, nStep, step>>
    /\ UNCHANGED <<logsVars, otherVars>>

\* ctr.Set(v)
SetCall(v) ==
    /\ frames = <<"Ctr">>
    /\ Cur' = [Cur EXCEPT ![Mode]["Cycle"] = Set(@, v).Cur]
    /\ ret' = Set(Cur[Mode]["Cycle"], v).changed
    /\ log' = <<CtrCall("Set", v)>>
    /\ frames' = <<>>
    /\ UNCHANGED <<StopFlag, StopNext, StopLevel, StepIterations, Loops, Mode,
                   lastStoppedLevel, internalStop, nStop, nStep, step>>
    /\ UNCHANGED <<logsVars, otherVars>>

NextCtr ==
    \/ IncrCall
    \/ IsOverMaxCall
    \/ \E v \in 0..MaxTick : SetCall(v)

SpecCtr == InitCtr /\ [][NextCtr]_vars

\* ------------------------------------------------------------ elog.Logs
\* etime.Scope(mode, time): the scope key of one mode and one time.
Scope(mode, tm) == <<mode, tm>>

\* The modes and times logged, and their scope keys.
LogModes == {"Train"}
LogTimes == {"Epoch", "Trial"}
ScopeKeys == {Scope(m, t) : m \in LogModes, t \in LogTimes}

\* An Item is modelled by the key set of its Write map, each key one mode
\* and one time; the Write function of item i is identified by i.
ItemChoices == SUBSET ScopeKeys

\* lt.File: nil, or an open file and the lines written to it.
NoFile == [open |-> FALSE, lines |-> <<>>]
HeaderLine == [kind |-> "headers", row |-> -1]
RowLine(row) == [kind |-> "row", row |-> row]

\* A LogTable on a new table of 0 rows (lines 905-906, 1134): no file, no
\* headers written, no index view made.
NewLogTable ==
    [Rows |-> 0, File |-> NoFile, WroteHeaders |-> FALSE, IdxViews |-> {}]

\* lt.ResetIdxViews(): the index views made of the table are dropped, "so it
\* is regenerated later when needed" (line 957).
ResetIdxViews(lt) == [lt EXCEPT !.IdxViews = {}]

\* lt.GetIdxView(), lt.NamedIdxView(name): the view of that name is kept
\* with the table until the views are reset.
ViewNames == {"RunStats"}
GetIdxView(lt, name) == [lt EXCEPT !.IdxViews = @ \cup {name}]

\* _, ok := item.Write[sk]
HasWrite(item, sk) == sk \in item

\* Lines 1030-1039, WriteItems over the items from index i on: the calls of
\* the Write functions made, each with the scope and row of the Context.
RECURSIVE WriteItems_Reversed(_, _, _, _)
WriteItems_Reversed(items, i, sk, row) ==
    IF i > Len(items) THEN <<>>
    ELSE WriteItems_Reversed(items, i + 1, sk, row)
           \o (IF HasWrite(items[i], sk) THEN <<[item |-> i, sk |-> sk, row |-> row]>>
                                         ELSE <<>>)

RECURSIVE WriteItems(_, _, _, _)
WriteItems(items, i, sk, row) ==
    IF i > Len(items) THEN <<>>
    ELSE (IF HasWrite(items[i], sk) THEN <<[item |-> i, sk |-> sk, row |-> row]>>
                                    ELSE <<>>)
           \o WriteItems(items, i + 1, sk, row)

\* Lines 1042-1052: the headers, once, and the last row go to the file, if
\* there is one.
WriteLastRowToFile(lt) ==
    IF lt.File = NoFile THEN lt
    ELSE [lt EXCEPT !.File.lines =
                        @ \o (IF lt.WroteHeaders THEN <<>> ELSE <<HeaderLine>>)
                          \o <<RowLine(lt.Rows - 1)>>,
                    !.WroteHeaders = TRUE]

\* Lines 950-952: a negative row stands for the row after the last.
RowLogged(rows, row) == IF row < 0 THEN rows ELSE row

\* Lines 953-955: dt.SetNumRows(row + 1) when the table is too short.
RowsAfter_Always(rows, row) == row + 1

RowsAfter(rows, row) == IF rows <= row THEN row + 1 ELSE rows

\* A zero-valued Logs with no items.
InitLogs ==
    /\ Loops = [m \in Modes |-> TestStack]
    /\ StopLevel = "Run"
    /\ Mode = "Train"
    /\ lastStoppedLevel = -1
    /\ StopFlag = FALSE
    /\ StopNext = FALSE
    /\ StepIterations = 0
    /\ internalStop = FALSE
    /\ Cur = [m \in Modes |-> [t \in Range(Loops[m].Order) |-> 0]]
    /\ frames = <<>>
    /\ ret = TRUE
    /\ log = <<>>
    /\ nStop = 0
    /\ nStep = 0
    /\ step = NoStep
    /\ NoLogs
    /\ NoOthers

\* func (lg *Logs) AddItem(item *Item)
AddItem(item) ==
    /\ Len(Items) < MaxItems
    /\ Items' = Append(Items, item)
    /\ UNCHANGED <<Tables, call, written>>
    /\ UNCHANGED <<looperVars, otherVars>>

\* func (lg *Logs) CreateTables(): a new table for every scope some item has
\* a Write function for.
CreateTables ==
    /\ Tables' = [sk \in UNION Range(Items) |-> NewLogTable]
    /\ UNCHANGED <<Items, call, written>>
    /\ UNCHANGED <<looperVars, otherVars>>

\* func (lg *Logs) LogRowScope(sk, row), called as op.  A scope with no table
\* makes lt nil and the call panic: the calls drawn are on a scope that has
\* a table.  The lines of an open file are bounded by MaxLines.
LogRowScopeAs(op, sk, row) ==
    /\ sk \in DOMAIN Tables
    /\ LET lt == Tables[sk]
           at == RowLogged(lt.Rows, row)
           rows == RowsAfter(lt.Rows, at)
       IN  /\ rows <= MaxRows
           /\ Len(lt.File.lines) < MaxLines
           /\ Tables' = [Tables EXCEPT ![sk] =
                           WriteLastRowToFile(
                               ResetIdxViews([lt EXCEPT !.Rows = rows]))]
           /\ written' = WriteItems(Items, 1, sk, at)
           /\ call' = [op |-> op, sk |-> sk, row |-> row, rows |-> lt.Rows,
                       after |-> rows, items |-> Len(Items)]
    /\ UNCHANGED Items
    /\ UNCHANGED <<looperVars, otherVars>>

\* func (lg *Logs) Log(mode, time)
Log(mode, t) ==
    /\ Scope(mode, t) \in DOMAIN Tables
    /\ LogRowScopeAs("Log", Scope(mode, t), Tables[Scope(mode, t)].Rows)

\* func (lg *Logs) LogScope(sk)
LogScope(sk) ==
    /\ sk \in DOMAIN Tables
    /\ LogRowScopeAs("LogScope", sk, Tables[sk].Rows)

\* func (lg *Logs) LogRow(mode, time, row)
LogRow(mode, t, row) ==
    /\ Scope(mode, t) \in DOMAIN Tables
    /\ LogRowScopeAs("LogRow", Scope(mode, t), row)

\* func (lg *Logs) LogRowScope(sk, row)
LogRowScope(sk, row) ==
    /\ sk \in DOMAIN Tables
    /\ LogRowScopeAs("LogRowScope", sk, row)

\* The rows a caller names: a negative one, and those of a full table.
RowArgs == -1..(MaxRows - 1)

NextLogs ==
    \/ \E item \in ItemChoices : AddItem(item)
    \/ CreateTables
    \/ \E m \in LogModes, t \in LogTimes : Log(m, t)
    \/ \E sk \in ScopeKeys : LogScope(sk)
    \/ \E m \in LogModes, t \in LogTimes, row \in RowArgs : LogRow(m, t, row)
    \/ \E sk \in ScopeKeys, row \in RowArgs : LogRowScope(sk, row)

SpecLogs == InitLogs /\ [][NextLogs]_vars

\* A Stepper initialized on the Test stack on which nothing is requested or
\* run.
NoStepper ==
    /\ Loops = [m \in Modes |-> TestStack]
    /\ StopLevel = "Run"
    /\ Mode = "Train"
    /\ lastStoppedLevel = -1
    /\ StopFlag = FALSE
    /\ StopNext = FALSE
    /\ StepIterations = 0
    /\ internalStop = FALSE
    /\ Cur = [m \in Modes |-> [t \in Range(Loops[m].Order) |-> 0]]
    /\ frames = <<>>
    /\ ret = TRUE
    /\ log = <<>>
    /\ nStop = 0
    /\ nStep = 0
    /\ step = NoStep

\* ------------------------------------------- Logs: resets, views and files
\* Mutant: the reset leaves the rows of the table.
RowsAfterReset_Kept(rows) == rows

\* dt.SetNumRows(0)
RowsAfterReset(rows) == 0

\* func (lg *Logs) ResetLog(mode, time)
ResetLog(mode, t) ==
    /\ LET sk == Scope(mode, t)
       IN  /\ call' = [op |-> "ResetLog", sk |-> sk, row |-> 0,
                       rows |-> IF sk \in DOMAIN Tables THEN Tables[sk].Rows ELSE 0,
                       after |-> IF sk \in DOMAIN Tables
                                 THEN RowsAfterReset(Tables[sk].Rows) ELSE 0,
                       items |-> Len(Items)]
           /\ Tables' = IF sk \in DOMAIN Tables
                        THEN [Tables EXCEPT ![sk] =
                                ResetIdxViews([@ EXCEPT !.Rows = RowsAfterReset(@)])]
                        ELSE Tables
    /\ written' = <<>>
    /\ UNCHANGED Items
    /\ UNCHANGED <<looperVars, otherVars>>

\* func (lg *Logs) IdxViewScope(sk), NamedIdxViewScope(sk, name), on a scope
\* that has a table.
IdxViewScope(sk, name) ==
    /\ sk \in DOMAIN Tables
    /\ Tables' = [Tables EXCEPT ![sk] = GetIdxView(@, name)]
    /\ UNCHANGED <<Items, call, written>>
    /\ UNCHANGED <<looperVars, otherVars>>

\* func (lg *Logs) SetLogFile(mode, time, fnm), on a scope that has a table:
\* os.Create gives a new, empty file (created = TRUE) or fails.
SetLogFile(mode, t, created) ==
    /\ Scope(mode, t) \in DOMAIN Tables
    /\ Tables' = [Tables EXCEPT ![Scope(mode, t)].File =
                     IF created THEN [open |-> TRUE, lines |-> <<>>] ELSE NoFile]
    /\ UNCHANGED <<Items, call, written>>
    /\ UNCHANGED <<looperVars, otherVars>>

\* func (lg *Logs) CloseLogFiles(), called with some file open (with none it
\* changes nothing).
CloseLogFiles ==
    /\ \E sk \in DOMAIN Tables : Tables[sk].File # NoFile
    /\ Tables' = [sk \in DOMAIN Tables |-> [Tables[sk] EXCEPT !.File = NoFile]]
    /\ UNCHANGED <<Items, call, written>>
    /\ UNCHANGED <<looperVars, otherVars>>

\* A Logs with one item after CreateTables: a table for each scope the item
\* has a Write function for.
InitLogFiles ==
    /\ NoStepper
    /\ NoOthers
    /\ \E item \in ItemChoices \ {{}} :
          /\ Items = <<item>>
          /\ Tables = [sk \in item |-> NewLogTable]
    /\ call = NoCall
    /\ written = <<>>

NextLogFiles ==
    \/ \E m \in LogModes, t \in LogTimes : Log(m, t)
    \/ \E m \in LogModes, t \in LogTimes : ResetLog(m, t)
    \/ \E sk \in ScopeKeys, name \in ViewNames : IdxViewScope(sk, name)
    \/ \E m \in LogModes, t \in LogTimes, created \in BOOLEAN :
          SetLogFile(m, t, created)
    \/ CloseLogFiles

SpecLogFiles == InitLogFiles /\ [][NextLogFiles]_vars

\* --------------------------------------------------- phaseLogic on its own
\* All phase lists of up to MaxPhases Durations in 1..MaxDur.
PhaseLists == UNION {[1..k -> 1..MaxDur] : k \in 0..MaxPhases}

\* A loop with any such phase list and any counter value in 0..MaxTick, on
\* which phaseLogic is about to be called.
InitPhase ==
    /\ \E ph \in PhaseLists :
         Loops = [m \in Modes |->
                    Stack(<<"Cycle">>,
                          [t \in {"Cycle"} |-> LoopStructure(MaxTick + 1, ph, NoPreds)])]
    /\ \E c \in 0..MaxTick : Cur = [m \in Modes |-> [t \in {"Cycle"} |-> c]]
    /\ StopLevel = "Run"
    /\ Mode = "Train"
    /\ lastStoppedLevel = -1
    /\ StopFlag = FALSE
    /\ StopNext = FALSE
    /\ StepIterations = 0
    /\ internalStop = FALSE
    /\ frames = <<"phaseLogic">>
    /\ ret = TRUE
    /\ log = <<>>
    /\ nStop = 0
    /\ nStep = 0
    /\ step = NoStep
    /\ NoLogs
    /\ NoOthers

\* stepper.phaseLogic(loop)
PhaseLogicCall ==
    /\ frames = <<"phaseLogic">>
    /\ log' = phaseLogic(st.Loops["Cycle"], Cur[Mode]["Cycle"], 0, <<Cur[Mode]["Cycle"]>>)
    /\ frames' = <<>>
    /\ UNCHANGED <<StopFlag, StopNext, StopLevel, StepIterations, Loops, Mode,
                   lastStoppedLevel, internalStop, Cur, ret, nStop, nStep, step>>
    /\ UNCHANGED <<logsVars, otherVars>>

NextPhase == PhaseLogicCall

SpecPhase == InitPhase /\ [][NextPhase]_vars

\* ------------------------------------------------------- reading the log
Depth == Len(st.Order)
Levels == 0..(Depth - 1)
LoopAt(d) == st.Loops[st.Order[d + 1]]
CurAt(d) == Cur[Mode][st.Order[d + 1]]

EvKind(e) == e[1]
EvLevel(e) == e[2]
EvCtrs(e) == e[3]
EvPhase(e) == e[4]
EvFunc(e) == e[5]

\* How often hook j of list kind of level d has fired.
Fired(kind, d, j) ==
    Cardinality({i \in DOMAIN log :
                    /\ EvKind(log[i]) = kind /\ EvLevel(log[i]) = d
                    /\ EvFunc(log[i]) = j})

AllCurZero == \A d \in Levels : CurAt(d) = 0

\* No stop or step request has been made.
NoRequest == nStop = 0 /\ nStep = 0

\* No termination predicate of the stack ever returns true: every predicate
\* is registered for an iteration beyond its level's Max.
NoPredFires ==
    \A d \in Levels : \A nm \in DOMAIN LoopAt(d).IsDone :
        LoopAt(d).IsDone[nm] > LoopAt(d).Max

\* Run() has returned from a pass that went through the whole stack.
Completed == ~Running /\ ret /\ log # <<>>

\* Run() has returned interrupted.
Interrupted == ~Running /\ ~ret

\* Max of level 0 x ... x Max of level d.
RECURSIVE MaxProduct(_)
MaxProduct(d) == IF d < 0 THEN 1 ELSE LoopAt(d).Max * MaxProduct(d - 1)

\* The hooks of a list fire one after the other, in registration order:
\* hook j right after hook j-1, and hook 1 first.
ListsInOrder ==
    \A i \in DOMAIN log :
        LET e == log[i]
        IN  EvKind(e) # "IsDone" =>
              /\ EvFunc(e) > 1 =>
                    /\ i > 1
                    /\ log[i - 1] = Ev(EvKind(e), EvLevel(e), EvCtrs(e), EvPhase(e), EvFunc(e) - 1)
              /\ EvFunc(e) < LoopAt(EvLevel(e)).NFuncs =>
                    /\ i < Len(log)
                    /\ log[i + 1] = Ev(EvKind(e), EvLevel(e), EvCtrs(e), EvPhase(e), EvFunc(e) + 1)

\* ------------------------------------------------------------------ claims
\* C1: for a stack whose levels all have a positive Max, with no termination
\* predicate returning true and no stop or step request ever made, Run()
\* returns after finitely many steps having completed the whole stack, and
\* every counter is 0 whenever no run is in progress.
C1_RunTerminatesAtZero ==
    /\ [](NoPredFires /\ ~Running => ret /\ AllCurZero)
    /\ [](NoPredFires /\ Running => <>(~Running /\ ret /\ AllCurZero))

\* C1 witness: Run() has returned from a completed pass through a two-level
\* stack with 2 x 2 iterations, all counters back at 0.
C1_Witness ==
    /\ Completed /\ NoPredFires /\ AllCurZero
    /\ Depth = 2 /\ \A d \in Levels : LoopAt(d).Max = 2
    /\ Fired("OnEnd", 1, 1) = 4

\* C2: in a run with only bounded levels, no predicate returning true and no
\* request, each OnStart, Main and OnEnd hook of the level at depth d has
\* fired Max_0 x ... x Max_d times when Run() returns, and the hooks of one
\* list fire in registration order.
C2_HookCounts ==
    /\ NoPredFires => ListsInOrder
    /\ (Completed /\ NoPredFires) =>
          \A d \in Levels : \A kind \in {"OnStart", "Main", "OnEnd"} :
              \A j \in 1..LoopAt(d).NFuncs : Fired(kind, d, j) = MaxProduct(d)

\* C2 witness: a completed pass in which the inner level's hooks fired
\* Max_0 x Max_1 = 4 times and the outer level's 2 times.
C2_Witness ==
    /\ Completed /\ NoPredFires
    /\ Depth = 2 /\ MaxProduct(1) = 4
    /\ Fired("Main", 1, LoopAt(1).NFuncs) = 4 /\ Fired("Main", 0, 1) = 2

\* The hooks one uninterrupted pass fires, written as the nested loops the
\* stepper stands for: iteration c of level d, then the iterations after it.
RECURSIVE PassFrom(_, _, _)
PassFrom(d, outer, c) ==
    IF d >= Depth THEN <<>>
    ELSE LET lp == LoopAt(d)
             cv == Append(outer, c)
             o == CHOOSE x \in Orders(DOMAIN lp.IsDone) : TRUE
             body == FireList("OnStart", d, cv, 0, lp.NFuncs)
                     \o phaseLogic(lp, c, d, cv)
                     \o PassFrom(d + 1, cv, 0)
                     \o FireList("Main", d, cv, 0, lp.NFuncs)
                     \o FireList("OnEnd", d, cv, 0, lp.NFuncs)
                     \o PredEvents(lp.IsDone, o, c, d, cv)
         IN  IF FirstTrue(lp.IsDone, o, c) # 0 \/ c + 1 >= lp.Max
             THEN body
             ELSE body \o PassFrom(d, outer, c + 1)

UninterruptedLog == PassFrom(0, <<>>, 0)

\* C3: the hooks fired by a pass that was interrupted by stop requests and
\* resumed by further Run() calls are, in sequence, those of one
\* uninterrupted Run(): none fires twice and none is skipped.
C3_ResumeSameSequence ==
    (Completed /\ nStep = 0) => log = UninterruptedLog

\* The level of the step request recorded in step, and how often hook 1 of
\* its list kind has fired at that level since the request was made.
StepLevel == DepthOf(step.t)
SinceStep(kind) ==
    Cardinality({i \in DOMAIN log :
                    /\ i > step.at
                    /\ log[i] \in {Ev(kind, StepLevel, cv, 0, 1) : cv \in {EvCtrs(log[i])}}})

\* A step of n >= 1 iterations was armed with the stepper idle or stopped at
\* the step's level, no stop request was ever made, and the first Run()
\* after it is in progress or has returned.
StepRun == step.on /\ step.runs = 1 /\ step.n >= 1 /\ nStop = 0

\* C4: arming a step of n >= 1 iterations at T with the stepper idle or
\* stopped at T and calling Run() lets n iterations of T's level run, each
\* from OnStart through OnEnd, and then halts as an armed stop at T does,
\* before the OnStart of an (n+1)-th iteration: never more than n start, and
\* when Run() returns interrupted exactly n have started and ended and the
\* interruption is recorded at T's level.
C4_StepRunsN ==
    StepRun =>
        /\ SinceStep("OnStart") <= step.n
        /\ Interrupted =>
              /\ SinceStep("OnStart") = step.n
              /\ SinceStep("OnEnd") = step.n
              /\ lastStoppedLevel = StepLevel

\* Where in the log the k-th OnEnd of the step's level since the step
\* request lies, 0 when fewer than k iterations have ended.
StepEndsUpTo(i) ==
    Cardinality({h \in (step.at + 1)..i :
                    EvKind(log[h]) = "OnEnd" /\ EvLevel(log[h]) = StepLevel /\ EvFunc(log[h]) = 1})
NthStepEnd(k) ==
    IF \E i \in DOMAIN log : i > step.at /\ StepEndsUpTo(i) = k
    THEN CHOOSE i \in DOMAIN log :
            i > step.at /\ StepEndsUpTo(i) = k /\ StepEndsUpTo(i - 1) = k - 1
    ELSE 0

\* C5: a step of n iterations at T runs no iteration of a level enclosing T
\* beyond what the n iterations need: once the n-th iteration at T has
\* ended, no enclosing level fires its OnStart before Run() halts.
C5_NoEnclosingStartAfterStep ==
    (StepRun /\ NthStepEnd(step.n) # 0) =>
        \A i \in DOMAIN log :
            (i > NthStepEnd(step.n) /\ EvKind(log[i]) = "OnStart") =>
                EvLevel(log[i]) >= StepLevel

\* A stop is armed for the timescale of the level that is about to begin an
\* iteration.
StopArmedHere ==
    IF Running
    THEN TopPc = "loop" /\ LoopCond(ctrCur, loop.Max) /\ StopFlag /\ time = StopLevel
    ELSE FALSE

\* C6: when a stop is armed for a timescale T of the stack, Run() halts the
\* next time T's level is about to begin an iteration: the step the stepper
\* takes there fires no hook, changes no counter and returns false with the
\* interruption recorded at that level, and from then on no hook fires and no
\* counter changes until Run() has returned.
C6_StopHaltsBeforeIteration ==
    [][ (nStop' = nStop /\ nStep' = nStep) =>
           /\ StopArmedHere =>
                 /\ log' = log /\ Cur' = Cur
                 /\ internalStop' /\ ~ret'
                 /\ lastStoppedLevel' = currentLevel
           /\ (Running /\ internalStop) =>
                 (log' = log /\ Cur' = Cur /\ ~ret') ]_vars

\* C6 witness: Run() has returned interrupted by a stop request at the inner
\* level of a two-level stack, after one inner iteration had run.
C6_Witness ==
    /\ Interrupted /\ nStop = 1 /\ nStep = 0
    /\ Depth = 2 /\ lastStoppedLevel = 1
    /\ CurAt(1) = 1 /\ Fired("OnEnd", 1, 1) = 1

\* Event e belongs to the iteration of level d whose counters are cv.
InIteration(e, d, cv) ==
    EvLevel(e) >= d /\ SubSeq(EvCtrs(e), 1, d + 1) = cv

\* The place of event e in an iteration of level d: OnStart, the level's
\* phase hooks, the hooks of nested levels, Main, OnEnd, the predicates.
Rank(e, d) ==
    IF EvLevel(e) > d THEN 2
    ELSE CASE EvKind(e) = "OnStart" -> 0
           [] EvKind(e) \in {"PhaseStart", "OnMillisecondEnd", "PhaseEnd"} -> 1
           [] EvKind(e) = "Main" -> 3
           [] EvKind(e) = "OnEnd" -> 4
           [] EvKind(e) = "IsDone" -> 5

\* C7: within one level and one counter value the hooks fire in the order
\* OnStart, the level's phase hooks, the hooks of the nested levels, Main,
\* OnEnd, the termination predicates; the hooks of a list in registration
\* order.
C7_OrderWithinIteration ==
    /\ ListsInOrder
    /\ \A i, j \in DOMAIN log :
          i < j =>
            \A d \in 0..EvLevel(log[i]) :
               InIteration(log[j], d, SubSeq(EvCtrs(log[i]), 1, d + 1)) =>
                   Rank(log[i], d) <= Rank(log[j], d)

RECURSIVE SumTo(_, _)
SumTo(ph, k) == IF k = 0 THEN 0 ELSE SumTo(ph, k - 1) + ph[k]

\* phaseLogic has been called on the loop of the phaseLogic specification.
PhaseLogicDone == frames = <<>>

\* Hook j of list kind of phase i fired in that call.
PhaseFired(kind, i, j) ==
    \E h \in DOMAIN log : log[h] = Ev(kind, 0, <<CurAt(0)>>, i, j)

\* C9: for every phase list and counter value c, the PhaseStart hooks of
\* phase i fire iff c is the sum of the Durations of the phases before i, and
\* its PhaseEnd hooks fire iff c is that offset plus its Duration minus 1.
C9_PhaseStartEnd ==
    PhaseLogicDone =>
        \A i \in 1..Len(LoopAt(0).Phases) : \A j \in 1..LoopAt(0).NFuncs :
            LET offset == SumTo(LoopAt(0).Phases, i - 1)
            IN  /\ PhaseFired("PhaseStart", i, j) <=> CurAt(0) = offset
                /\ PhaseFired("PhaseEnd", i, j) <=>
                       CurAt(0) = offset + LoopAt(0).Phases[i] - 1

\* C9 witness: for Durations [2,3] and c = 4 phaseLogic was called and fired
\* the PhaseEnd hooks of the second phase.
C9_Witness ==
    /\ PhaseLogicDone
    /\ LoopAt(0).Phases = <<2, 3>> /\ CurAt(0) = 4
    /\ PhaseFired("PhaseEnd", 2, 1)

\* C10: for every phase list and counter value c, the OnMillisecondEnd (tick)
\* hooks of phase i fire iff offset_i <= c < offset_i + Duration_i: at each
\* tick only the owning phase's.
C10_TickOnlyOwningPhase ==
    PhaseLogicDone =>
        \A i \in 1..Len(LoopAt(0).Phases) : \A j \in 1..LoopAt(0).NFuncs :
            LET offset == SumTo(LoopAt(0).Phases, i - 1)
            IN  PhaseFired("OnMillisecondEnd", i, j) <=>
                    (offset <= CurAt(0) /\ CurAt(0) < offset + LoopAt(0).Phases[i])

\* Event e is a phase hook firing.
IsPhaseEv(e) == EvKind(e) \in {"PhaseStart", "OnMillisecondEnd", "PhaseEnd"}

\* C11: the phase schedule of a level is evaluated exactly once per counter
\* value of that level, right after the level's OnStart hooks, also when the
\* iteration is interrupted deeper in the stack and resumed by another Run():
\* in one pass no phase hook fires twice for the same counters, and the phase
\* hooks of an iteration follow its OnStart hooks directly.
C11_PhaseOncePerCounter ==
    \A i \in DOMAIN log :
        IsPhaseEv(log[i]) =>
            /\ \A h \in DOMAIN log : h # i => log[h] # log[i]
            /\ i > 1
            /\ EvLevel(log[i - 1]) = EvLevel(log[i])
            /\ EvCtrs(log[i - 1]) = EvCtrs(log[i])
            /\ EvKind(log[i - 1]) = "OnStart" \/ IsPhaseEv(log[i - 1])

\* Level d has a termination predicate that first returns true after the
\* k-th iteration of a pass, k < Max: the k it is registered for.
EndsEarly(d) ==
    /\ DOMAIN LoopAt(d).IsDone = {"done"}
    /\ LoopAt(d).IsDone["done"] < LoopAt(d).Max

\* The passes level d has made when the stack is completed: one per
\* completed iteration of the enclosing level, one for the outermost level.
Passes(d) == IF d = 0 THEN 1 ELSE Fired("Main", d - 1, 1)

\* C12: a level with maximum M whose termination predicate first returns
\* true after the k-th completed iteration, k < M, ends there: in each pass
\* its Main and OnEnd hooks and its predicate have run exactly k times, not M,
\* and its counter is back at 0.
C12_PredicateEndsLevel ==
    Completed =>
        \A d \in Levels :
            EndsEarly(d) =>
                LET k == LoopAt(d).IsDone["done"]
                IN  /\ \A j \in 1..LoopAt(d).NFuncs :
                          /\ Fired("Main", d, j) = k * Passes(d)
                          /\ Fired("OnEnd", d, j) = k * Passes(d)
                    /\ Fired("IsDone", d, "done") = k * Passes(d)
                    /\ CurAt(d) = 0

\* C12 witness: a completed pass through a two-level stack, both levels of
\* maximum 2 with a predicate true after the first iteration: one iteration
\* of each level has run.
C12_Witness ==
    /\ Completed /\ Depth = 2
    /\ \A d \in Levels : EndsEarly(d) /\ LoopAt(d).Max = 2 /\ LoopAt(d).IsDone["done"] = 1
    /\ Fired("OnEnd", 0, 1) = 1 /\ Fired("OnEnd", 1, 1) = 1
    /\ Fired("IsDone", 1, "done") = 1

\* Level d loops forever unless a predicate ends it.
Unbounded(d) == LoopAt(d).Max < 0

\* C13: a level with a negative maximum whose termination predicate returns
\* true after its k-th iteration terminates at that iteration: its counter
\* never reaches k, a completed pass through the stack has run exactly k
\* iterations of the level per pass of the level, and every Run() returns
\* complete.
C13_UnboundedTerminates ==
    /\ [](\A d \in Levels :
            Unbounded(d) =>
                /\ CurAt(d) < LoopAt(d).IsDone["done"]
                /\ Completed =>
                      /\ Fired("OnStart", d, 1) = LoopAt(d).IsDone["done"] * Passes(d)
                      /\ Fired("Main", d, 1) = LoopAt(d).IsDone["done"] * Passes(d))
    /\ [](Running => <>Completed)

\* C13 witness: a single unbounded level whose predicate returns true after
\* iteration MaxIter + 1 has completed, having run MaxIter + 1 iterations.
C13_Witness ==
    /\ Completed /\ Depth = 1 /\ Unbounded(0)
    /\ LoopAt(0).IsDone["done"] = MaxIter + 1
    /\ Fired("Main", 0, 1) = MaxIter + 1 /\ CurAt(0) = 0

\* The inner call has returned complete: the level is about to fire Main,
\* OnEnd and its termination predicates.
EndingIteration == IF Running THEN TopPc = "wait" /\ RunComplete(ret) ELSE FALSE

\* C14: the same configuration under the same requests fires the same
\* sequence of hooks and predicates and ends with the same counters, also when
\* a level has several named predicates: what the end of an iteration fires,
\* and the counter it leaves, is the same whatever order the predicates of
\* the level are visited in.
C14_SameSequenceAnyOrder ==
    [][EndingIteration =>
          \A o \in Orders(DOMAIN loop.IsDone) :
              LET cv == CtrVec(currentLevel)
              IN  /\ log' = log \o FireList("Main", currentLevel, cv, 0, loop.NFuncs)
                                \o FireList("OnEnd", currentLevel, cv, 0, loop.NFuncs)
                                \o PredEvents(loop.IsDone, o, ctrCur, currentLevel, cv)
                  /\ Cur'[Mode][time] =
                        IF IsDoneTrue(FirstTrue(loop.IsDone, o, ctrCur)) THEN 0 ELSE ctrCur + 1
      ]_vars

\* Every request made so far named a timescale that is not in the stack:
\* only stop requests were made, or one step request, at NoSuchTime.
OnlyUnknownRequests ==
    nStep = 0 \/ (nStep = 1 /\ nStop = 0 /\ StopLevel = NoSuchTime)

\* C15: a stop or step request at a timescale that is not in the stack is a
\* no-op.  With only such requests made, Run() is never interrupted and a
\* completed pass has fired the hooks of an uninterrupted Run(), all counters
\* 0; and with stop requests made only at such a timescale, a step of n
\* iterations at a level of the stack runs its n iterations as it does
\* without them.
C15_UnknownTimescaleNoOp ==
    /\ OnlyUnknownRequests =>
          /\ ~Interrupted
          /\ Completed => (log = UninterruptedLog /\ AllCurZero)
    /\ (step.on /\ step.runs = 1 /\ step.n >= 1 /\ nStep = 1) =>
          /\ SinceStep("OnStart") <= step.n
          /\ Interrupted =>
                (SinceStep("OnStart") = step.n /\ SinceStep("OnEnd") = step.n)

\* A method of Ctr has been called on the counter of the Ctr specification:
\* the method, Cur and Max before the call, the argument.
CtrDone == frames = <<>> /\ Len(log) = 1 /\ Len(log[1]) = 4
CtrOp == log[1][1]
CtrCurBefore == log[1][2]
CtrMaxBefore == log[1][3]
CtrArg == log[1][4]

\* C16: Incr adds exactly 1 to Cur whatever Max is; IsOverMax returns true
\* iff Max > 0 and Cur >= Max and leaves Cur alone; Set(v) leaves Cur = v and
\* returns true iff Cur differed from v; none of them changes Max.
C16_CtrMethods ==
    CtrDone =>
        /\ LoopAt(0).Max = CtrMaxBefore
        /\ CtrOp = "Incr" => CurAt(0) = CtrCurBefore + 1
        /\ CtrOp = "IsOverMax" =>
              /\ ret <=> (CtrMaxBefore > 0 /\ CtrCurBefore >= CtrMaxBefore)
              /\ CurAt(0) = CtrCurBefore
        /\ CtrOp = "Set" =>
              /\ CurAt(0) = CtrArg
              /\ ret <=> (CtrCurBefore # CtrArg)

\* C16 witness: IsOverMax was called on a counter with Cur = Max = 1 and
\* returned true.
C16_Witness ==
    /\ CtrDone /\ CtrOp = "IsOverMax"
    /\ CtrCurBefore = 1 /\ CtrMaxBefore = 1 /\ ret

\* The step taken is one of the stepper, not a request of the caller.
StepperStep == nStop' = nStop /\ nStep' = nStep

\* The running level is at the top of a loop pass with a stop in force: the
\* suspension point.
Suspending ==
    IF Running THEN TopPc = "loop" /\ LoopCond(ctrCur, loop.Max) /\ Halting ELSE FALSE

\* C19: at the suspension point runLevel returns false without changing any
\* level's counter and with the interruption depth recorded, not cleared; and
\* between the interrupted Run() and the next one no counter changes, so the
\* next Run() starts from the counters and the depth of the suspension.
C19_SuspendKeepsCounters ==
    [][StepperStep =>
          /\ Suspending =>
                /\ Cur' = Cur /\ ~ret'
                /\ Len(frames') = Len(frames) - 1
                /\ lastStoppedLevel' \in Levels /\ lastStoppedLevel' >= currentLevel
          /\ Interrupted =>
                /\ Cur' = Cur
                /\ lastStoppedLevel' = lastStoppedLevel /\ lastStoppedLevel \in Levels
      ]_vars

\* C19 witness: a second Run() has been called after an interruption at the
\* inner level of a two-level stack, the inner counter still at 1.
C19_Witness ==
    /\ frames = <<"loop">> /\ ~ret /\ ~internalStop
    /\ Depth = 2 /\ lastStoppedLevel = 1 /\ CurAt(1) = 1

\* C20: once a stop has been detected inside a Run() call, no hook and no
\* predicate fires and no counter changes before Run() returns: every step up
\* to the return either hands false to the enclosing call or is that call
\* taking the false return, and Run() returns false.
C20_SuspensionPropagates ==
    [][(StepperStep /\ Running /\ internalStop) =>
          /\ log' = log /\ Cur' = Cur
          /\ internalStop' /\ ~ret'
          /\ \/ Len(frames') = Len(frames) - 1
             \/ TopPc = "wait" /\ frames' = [frames EXCEPT ![Len(frames)] = "loop"]
      ]_vars

\* C20 witness: the outermost level of a two-level stack is about to return
\* false, a stop having been detected at the inner level after one of its
\* iterations.
C20_Witness ==
    /\ frames = <<"loop">> /\ internalStop /\ ~ret
    /\ Depth = 2 /\ lastStoppedLevel = 1 /\ Fired("OnEnd", 1, 1) = 1

\* The items of the last logging call that have a Write function for its
\* scope.
WritersOfCall == {i \in 1..call.items : call.sk \in Items[i]}

\* The row the last logging call wrote to.
RowOfCall == IF call.row < 0 THEN call.rows ELSE call.row

\* C17: each logging call (Log, LogScope, LogRow, LogRowScope) calls the
\* Write functions in the order the items were added (increasing index, so
\* no item twice), calls exactly the items that have a Write function for
\* the logged scope, and hands each the logged scope and row.
C17_WritesInAddOrder ==
    call.op # "none" =>
        /\ \A k \in 1..(Len(written) - 1) : written[k].item < written[k + 1].item
        /\ {written[k].item : k \in 1..Len(written)} = WritersOfCall
        /\ \A k \in 1..Len(written) :
             written[k].sk = call.sk /\ written[k].row = RowOfCall

\* A logging call on three items, of which the first and the last have a
\* Write function for the scope and the second has none.
C17_Witness ==
    /\ call.op = "Log"
    /\ call.items = 3
    /\ WritersOfCall = {1, 3}
    /\ Len(written) = 2

\* C18: Log and LogScope add exactly one row; after LogRow and LogRowScope
\* at row r >= 0 the table has max(rows before, r + 1) rows, and after a
\* negative r one row more than before.
C18_RowsAfterLogging ==
    /\ call.op \in {"Log", "LogScope"} => call.after = call.rows + 1
    /\ call.op \in {"LogRow", "LogRowScope"} =>
         call.after = IF call.row < 0 THEN call.rows + 1
                      ELSE IF call.rows > call.row + 1 THEN call.rows
                      ELSE call.row + 1
    /\ call.op # "none" => call.after >= call.rows

\* LogRow at row 0 of a table of two rows, which keeps its two rows.
C18_Witness ==
    /\ call.op = "LogRow"
    /\ call.row = 0
    /\ call.rows = 2
    /\ call.after = 2
    /\ Tables[call.sk].Rows = 2

\* The running level is at the top of a loop pass with no stop in force: it
\* goes on to lines 65-87.
Iterating ==
    IF Running THEN TopPc = "loop" /\ LoopCond(ctrCur, loop.Max) /\ ~Halting ELSE FALSE

\* The number of times event e is in the log.
Occurrences(e) == Cardinality({i \in DOMAIN log' : log'[i] = e})

\* C21: in a behaviour with stop requests only, on the Run() after an
\* interruption at depth d (lastStoppedLevel = d), a level at depth < d that
\* continues its iteration fires no OnStart hook, and the level at depth d
\* fires each of its OnStart hooks, which then has fired exactly once for the
\* level's current counter values in this pass through the stack.
C21_ResumeStartsOnce ==
    [][(StepperStep /\ Iterating /\ nStep = 0 /\ lastStoppedLevel >= 0) =>
          IF currentLevel < lastStoppedLevel
          THEN \A i \in (Len(log) + 1)..Len(log') : EvKind(log'[i]) # "OnStart"
          ELSE \A j \in 1..loop.NFuncs :
                 Occurrences(Ev("OnStart", currentLevel, CtrVec(currentLevel), 0, j)) = 1
      ]_vars

\* C22: on the Run() after an interruption at depth d, with a step armed at
\* a level e < d, a level at depth e..d-1 that goes on with its in-flight
\* iteration fires no OnStart hook, whether or not the step count reaches
\* zero there.
C22_StepKeepsStartsSkipped ==
    [][(StepperStep /\ Iterating /\ StopNext
          /\ DepthOf(StopLevel) \in 0..currentLevel
          /\ currentLevel < lastStoppedLevel) =>
          \A i \in (Len(log) + 1)..Len(log') : EvKind(log'[i]) # "OnStart"
      ]_vars

C24_InterruptionDepth ==
    /\ []((~Running /\ ret) => lastStoppedLevel = -1)
    /\ []((~Running /\ ~ret) => lastStoppedLevel \in Levels)
    /\ [][StepperStep =>
            /\ (Suspending /\ StopFlag /\ time = StopLevel) =>
                  lastStoppedLevel' = DepthOf(StopLevel)
            /\ (Suspending /\ ~(StopFlag /\ time = StopLevel)) =>
                  lastStoppedLevel' = lastStoppedLevel
         ]_vars

\* Run() has returned interrupted at the inner level of a two-level stack
\* during the second iteration of the outer level.
C24_Witness ==
    /\ Interrupted /\ Depth = 2
    /\ lastStoppedLevel = 1 /\ DepthOf(StopLevel) = 1
    /\ CurAt(0) = 1

\* The order the predicates of the drawn stacks are registered in: "a"
\* before "b".  The map loop.IsDone keeps no trace of it.
RegistrationOrder == <<"a", "b", "done">>

\* The predicates of a level, in registration order.
Registered(isDone) == SelectSeq(RegistrationOrder, LAMBDA n : n \in DOMAIN isDone)

\* The predicate evaluations among the events a step appends to the log.
NewIsDone ==
    SelectSeq(SubSeq(log', Len(log) + 1, Len(log')), LAMBDA e : EvKind(e) = "IsDone")

\* C25: when an iteration of a level has completed, every predicate
\* registered for the level is evaluated, once, in registration order, in the
\* step that goes on to end the level or to increment its counter.
C25_AllPredicatesInOrder ==
    [][EndingIteration =>
          NewIsDone = [i \in 1..Len(Registered(loop.IsDone)) |->
                          Ev("IsDone", currentLevel, CtrVec(currentLevel), 0,
                             Registered(loop.IsDone)[i])]
      ]_vars

\* The inner call has just returned to the running level because a
\* predicate of the inner level returned true with iterations left: the last
\* event is that predicate's evaluation, at a counter value below Max - 1.
InnerEndedEarly ==
    IF Running /\ log # <<>>
    THEN LET e == log[Len(log)]
             d == currentLevel + 1
         IN  /\ TopPc = "wait" /\ d \in Levels
             /\ EvKind(e) = "IsDone" /\ EvLevel(e) = d
             /\ PredTrue(LoopAt(d).IsDone[EvFunc(e)], EvCtrs(e)[d + 1])
             /\ EvCtrs(e)[d + 1] + 1 < LoopAt(d).Max
    ELSE FALSE

\* C26: when the inner level has been ended early by its predicate, its
\* counter is 0 and the enclosing level takes the return as complete: it
\* fires its Main hooks, then its OnEnd hooks, then evaluates predicates of
\* its own if it has any, and sets its counter to 0 if one of them returned
\* true and one higher if none did; what it does is what the end of an
\* iteration does after any complete return.
C26_EarlyEndIsComplete ==
    [][InnerEndedEarly =>
          LET cv == CtrVec(currentLevel)
              n == loop.NFuncs
              ownTrue == \E nm \in DOMAIN loop.IsDone : PredTrue(loop.IsDone[nm], ctrCur)
          IN  /\ CurAt(currentLevel + 1) = 0
              /\ EndingIteration
              /\ Len(log') >= Len(log) + 2 * n
              /\ SubSeq(log', 1, Len(log) + 2 * n) =
                    log \o FireList("Main", currentLevel, cv, 0, n)
                        \o FireList("OnEnd", currentLevel, cv, 0, n)
              /\ \A i \in (Len(log) + 2 * n + 1)..Len(log') :
                    /\ EvKind(log'[i]) = "IsDone" /\ EvLevel(log'[i]) = currentLevel
                    /\ EvCtrs(log'[i]) = cv
              /\ DOMAIN loop.IsDone # {} => Len(log') > Len(log) + 2 * n
              /\ Cur'[Mode][time] = IF ownTrue THEN 0 ELSE ctrCur + 1
      ]_vars

\* The outer level has gone on to its second iteration after its first one
\* ended on an inner level that its predicate ended after one iteration of
\* MaxIter.
C26_Witness ==
    /\ Running /\ Depth = 2 /\ CurAt(0) = 1 /\ ~internalStop
    /\ LoopAt(1).IsDone["done"] = 1 /\ LoopAt(1).Max = MaxIter
    /\ Fired("IsDone", 1, "done") = 1 /\ Fired("OnEnd", 0, 1) = 1

\* The running level returns complete in this step: its loop is done.
LevelDone == Running /\ Len(frames') = Len(frames) - 1 /\ ret'

\* C27: a level whose loop is done, by exhaustion or by its predicate, with
\* no interruption in progress, returns with its counter at 0; and whenever
\* a level fires its OnStart hooks the counter of every deeper level is 0.
C27_DeeperCountersZeroAtStart ==
    [][StepperStep =>
          /\ (LevelDone /\ ~internalStop) => Cur'[Mode][time] = 0
          /\ (Iterating /\ \E i \in (Len(log) + 1)..Len(log') : EvKind(log'[i]) = "OnStart") =>
                \A d \in Levels : d > currentLevel => CurAt(d) = 0
      ]_vars

\* C28: on stacks of bounded levels, with stop and step requests and Run()
\* calls in any order, the counter of every level of every stack is within
\* 0..Max, and every hook and predicate that has fired at a level saw that
\* level's counter within 0..Max-1.
C28_CountersWithinMax ==
    /\ \A m \in Modes : \A t \in Range(Loops[m].Order) :
          0 <= Cur[m][t] /\ Cur[m][t] <= Loops[m].Loops[t].Max
    /\ \A i \in DOMAIN log :
          LET c == EvCtrs(log[i])[EvLevel(log[i]) + 1]
          IN  0 <= c /\ c < LoopAt(EvLevel(log[i])).Max

\* After a stop and a step request, the inner level of a two-level stack has
\* run its MaxIter iterations and its counter stands at Max, the loop about
\* to end.
C28_Witness ==
    /\ Running /\ currentLevel = 1 /\ TopPc = "loop"
    /\ nStop = 1 /\ nStep = 1
    /\ loop.Max = MaxIter /\ ctrCur = MaxIter
    /\ Fired("OnEnd", 1, 1) = MaxIter

\* C29: whatever stop and step requests were made at timescales of the
\* stack, StopFlag is false when Run() returns, complete or interrupted.
C29_NoStopArmedOnReturn ==
    [][(StepperStep /\ Running /\ ~Running') => ~StopFlag']_vars

\* C30: for every counter with Cur >= 0 and any Max, negative, 0 or
\* positive, IsOverMax() returns false exactly when the loop condition of
\* runLevel holds.
C30_GuardIffNotOverMax ==
    (CtrDone /\ CtrOp = "IsOverMax") =>
        (~ret <=> LoopCond(CtrCurBefore, CtrMaxBefore))

\* A step with a count of 1 or less was armed with the stepper idle or
\* stopped at the step's level, and the first Run() after it is in progress
\* or has returned.
LowStepRun == step.on /\ step.runs = 1 /\ step.n <= 1 /\ nStop = 0

\* C31: a step armed with a count n <= 1 (1, 0 or negative) lets exactly one
\* iteration at the step's level run before the stop engages: never more
\* than one iteration starts, and when Run() returns interrupted exactly one
\* has started and ended and the interruption is recorded at the step's
\* level.
C31_LowCountRunsOne ==
    LowStepRun =>
        /\ SinceStep("OnStart") <= 1
        /\ Interrupted =>
              /\ SinceStep("OnStart") = 1
              /\ SinceStep("OnEnd") = 1
              /\ lastStoppedLevel = StepLevel

\* Hook i of the log has the OnStart hooks of level d before it, fired for
\* the iteration of level d it belongs to, or is one of them.
StartedAt(i, d) ==
    LET cv == SubSeq(EvCtrs(log[i]), 1, d + 1)
    IN  \/ EvKind(log[i]) = "OnStart" /\ EvLevel(log[i]) = d
        \/ \E h \in 1..(i - 1) : log[h] = Ev("OnStart", d, cv, 0, LoopAt(d).NFuncs)

\* C32: selecting a different mode after an interruption starts that mode's
\* stack with every level's OnStart firing for its first iteration: every
\* hook fired in the newly selected stack has the OnStart hooks of its own
\* and of each enclosing iteration before it; the interruption depth left
\* by the previous mode suppresses none of them.
C32_NewModeStartsEveryLevel ==
    Mode # "Train" =>
        \A i \in DOMAIN log : \A d \in 0..EvLevel(log[i]) : StartedAt(i, d)

\* ------------------------------------------------------------ ringidx.FIx
\* The fields and arguments of FIx are uint32.  The model keeps the
\* arithmetic modulo 2^w at a width of UintBits bits in place of 32.
Uint == 2 ^ UintBits
Uint32 == 0..(Uint - 1)

\* func (fi *FIx) Idx(i uint32) uint32
Idx(f, i) ==
    LET sum == (i + f.Zi) % Uint                  \* i += fi.Zi
    IN  IF sum >= f.Len THEN (sum - f.Len) % Uint  \* i -= fi.Len
        ELSE sum

\* func (fi *FIx) IdxIsValid(i uint32) bool
IdxIsValid(f, i) == i < f.Len

\* A FIx of any length that holds a zero index below its length.
InitRing ==
    /\ NoStepper
    /\ NoLogs
    /\ NoNetData
    /\ NoEnv
    /\ \E len \in Uint32 \ {0} : \E zi \in 0..(len - 1) :
          fi = [Zi |-> zi, Len |-> len]
    /\ ficall = NoFIxCall

\* fi.Idx(i) called with a valid index: "i must be < Len".
IdxCall(i) ==
    /\ IdxIsValid(fi, i)
    /\ ficall' = [op |-> "Idx", zi |-> fi.Zi, len |-> fi.Len, arg |-> i,
                  res |-> Idx(fi, i)]
    /\ UNCHANGED fi
    /\ UNCHANGED <<looperVars, logsVars, netVars, envVars>>

\* func (fi *FIx) Shift(n uint32): fi.Zi = uint32(fi.Idx(n))
Shift(n) ==
    /\ fi' = [fi EXCEPT !.Zi = Idx(fi, n)]
    /\ ficall' = [op |-> "Shift", zi |-> fi.Zi, len |-> fi.Len, arg |-> n,
                  res |-> Idx(fi, n)]
    /\ UNCHANGED <<looperVars, logsVars, netVars, envVars>>

NextRing ==
    \/ \E i \in Uint32 : IdxCall(i)
    \/ \E n \in Uint32 : Shift(n)

SpecRing == InitRing /\ [][NextRing]_vars

\* C33: for every FIx with Zi < Len and every logical index i < Len, for
\* every length, Idx(i) is (Zi + i) mod Len and is below Len, also when
\* Zi + i does not fit in the width of the integers.
C33_IdxIsSumModLen ==
    (/\ ficall.op = "Idx" /\ ficall.zi < ficall.len
     /\ ficall.arg < ficall.len) =>
        /\ ficall.res = (ficall.zi + ficall.arg) % ficall.len
        /\ ficall.res < ficall.len

\* C34: Shift(n) moves the zero index up by n: after it Zi is (previous Zi +
\* n) mod Len, for every n, so that a zero index below Len stays below Len
\* through every sequence of Shift calls.
C34_ShiftKeepsZiBelowLen ==
    /\ fi.Zi < fi.Len
    /\ ficall.op = "Shift" => fi.Zi = (ficall.zi + ficall.arg) % fi.Len

\* C35: ResetLog(mode, time) sets the table of the scope to 0 rows and
\* resets its index views, leaving every other table as it was; for a scope
\* that has no table it returns without changing the items or the tables.
C35_ResetLog ==
    [][\A m \in LogModes, t \in LogTimes :
          ResetLog(m, t) =>
              LET sk == Scope(m, t)
              IN  /\ Items' = Items
                  /\ IF sk \in DOMAIN Tables
                     THEN /\ DOMAIN Tables' = DOMAIN Tables
                          /\ Tables'[sk].Rows = 0
                          /\ Tables'[sk].IdxViews = {}
                          /\ \A o \in DOMAIN Tables \ {sk} : Tables'[o] = Tables[o]
                     ELSE Tables' = Tables
      ]_vars

\* C35 witness: the last call was a ResetLog of a table that had rows, with
\* another scope having no table.
C35_Witness ==
    /\ call.op = "ResetLog"
    /\ call.sk \in DOMAIN Tables
    /\ call.rows > 0
    /\ Tables[call.sk].Rows = 0
    /\ ScopeKeys \ DOMAIN Tables # {}

\* C36: every log file of a scope begins with the column-header line,
\* followed by one line per logged row: the headers are written once per
\* file, before the first row written to it, also to a file set with
\* SetLogFile after rows were logged.
C36_HeadersOncePerFile ==
    \A sk \in DOMAIN Tables :
        LET lines == Tables[sk].File.lines
        IN  lines # <<>> =>
               /\ lines[1] = HeaderLine
               /\ \A i \in 2..Len(lines) : lines[i].kind = "row"

\* ------------------------------------------------------- netview.NetData
\* nd.Ring, a ringidx.Idx: "Max here is max number of values to store, Len
\* is number stored, and Idx(Len-1) is the most recent one" (line 44).
\* Ring.Idx(i): the place of the i-th stored value, wrapping around at Max.
RingIdx(ring, i) ==
    IF ring.StIdx + i >= ring.Max THEN ring.StIdx + i - ring.Max
    ELSE ring.StIdx + i

\* Ring.Add(1): one more value is stored; a full ring gives up its oldest.
RingAdd(ring) ==
    IF ring.Len + 1 > ring.Max
    THEN [ring EXCEPT !.StIdx = RingIdx(ring, 1)]
    ELSE [ring EXCEPT !.Len = @ + 1]

\* Ring.LastIdx()
RingLastIdx(ring) == RingIdx(ring, ring.Len - 1)

\* Lines 77-79 of Config: a Ring.Max of 0 becomes 2.
RingMax(max) == IF max = 0 THEN 2 ELSE max

\* func (nd *NetData) Init(net, max, noSynData), on a network that has
\* layers: Config() makes RasterCtrs of length Ring.Max (lines 171-174).
InitNetData ==
    /\ NoStepper
    /\ NoLogs
    /\ NoFIx
    /\ NoEnv
    /\ \E max \in 0..MaxRing :
          nd = [Ring |-> [StIdx |-> 0, Len |-> 0, Max |-> RingMax(max)],
                RastCtr |-> 0,
                RasterCtrs |-> [i \in 1..RingMax(max) |-> 0],
                RasterMap |-> <<>>]

\* Lines 192-198: a negative rastCtr stands for the internal counter, which
\* is then incremented and wraps around at rastMax.
RastCtrUsed(rastCtr) == IF rastCtr < 0 THEN nd.RastCtr ELSE rastCtr
RastCtrAfter(rastCtr, rastMax) ==
    IF rastCtr < 0
    THEN (IF nd.RastCtr + 1 >= rastMax THEN 0 ELSE nd.RastCtr + 1)
    ELSE nd.RastCtr

\* RasterMap[k] = v on the Go map m.
MapSet(m, k, v) == [x \in DOMAIN m \cup {k} |-> IF x = k THEN v ELSE m[x]]

\* func (nd *NetData) Record(ctrs, rastCtr, rastMax), lines 183-202, on a
\* network that has layers.  Slice index lidx is place lidx + 1 here.
Record(rastCtr, rastMax) ==
    /\ nd.Ring.Max > 0
    /\ LET ring == RingAdd(nd.Ring)
           lidx == RingLastIdx(ring)
           ctr  == RastCtrUsed(rastCtr)
       IN  nd' = [Ring |-> ring,
                  RastCtr |-> RastCtrAfter(rastCtr, rastMax),
                  RasterCtrs |-> [nd.RasterCtrs EXCEPT ![lidx + 1] = ctr],
                  RasterMap |-> MapSet(nd.RasterMap, ctr, lidx)]
    /\ UNCHANGED <<looperVars, logsVars, ringVars, envVars>>

\* func (nd *NetData) UnitValRaster(..., rastCtr), lines 357-361: the stored
\* record read for a raster counter, or -1 when the map has none.
UnitValRaster(rastCtr) ==
    IF rastCtr \in DOMAIN nd.RasterMap THEN nd.RasterMap[rastCtr] ELSE -1

NextNetData ==
    \E rastCtr \in -1..(MaxRast - 1), rastMax \in 0..MaxRast :
        Record(rastCtr, rastMax)

SpecNetData == InitNetData /\ [][NextNetData]_vars

\* C37: after any sequence of Record calls every entry of RasterMap points
\* to a stored record that carries that raster counter: for each key k,
\* RasterCtrs[RasterMap[k]] = k, also after the ring has wrapped around and
\* overwritten old records.
C37_RasterMapPointsToItsRecord ==
    \A k \in DOMAIN nd.RasterMap :
        nd.RasterCtrs[UnitValRaster(k) + 1] = k

\* ---------------------------------------------------- env.MPIFixedTable
\* rand.Perm(np), erand.PermuteInts(ft.Order): the orders of np rows.
PermsOf(np) ==
    {o \in [1..np -> 0..(np - 1)] : \A i, j \in 1..np : o[i] = o[j] => i = j}
AllRowOrders == [np \in 1..MaxTrials |-> PermsOf(np)]
RowOrders(np) == AllRowOrders[np]

\* empi.AllocN(np): the np rows are split evenly over the MPI procs (np "is
\* evenly divisible by number of MPI procs"); the proc of rank r is given
\* [st, end) = [r * np / nprocs, (r + 1) * np / nprocs).
AllocN(np) ==
    {[st |-> r * (np \div nprocs), end |-> (r + 1) * (np \div nprocs)] :
        nprocs \in {k \in 1..np : np % k = 0}, r \in 0..(np - 1)} \cap
    {[st |-> a, end |-> b] : a \in 0..np, b \in 1..np}

\* ct.Incr() of an env.Ctr: one more, and "if true, hit max, reset to 0"
\* (line 292); Max is "only used if > 0".
CtrIncr(ctr) ==
    IF ctr.Max > 0 /\ ctr.Cur + 1 >= ctr.Max
    THEN [ctr |-> [ctr EXCEPT !.Cur = 0], hit |-> TRUE]
    ELSE [ctr |-> [ctr EXCEPT !.Cur = @ + 1], hit |-> FALSE]

\* ct.Init() of an env.Ctr: the counter starts at 0 and keeps its Max.
CtrInit(ctr) == [ctr EXCEPT !.Cur = 0]

\* func (ft *MPIFixedTable) NewOrder(), lines 247-254, for the share a of
\* the rows AllocN gives and the order o rand.Perm gives.
NewOrder(f, o, a) ==
    [f EXCEPT !.Order = o, !.TrialSt = a.st, !.TrialEd = a.end,
              !.Trial.Max = a.end]

\* Line 243: ft.Trial.Cur = ft.TrialSt - 1
TrialAtInit(f) == f.TrialSt - 1

\* func (ft *MPIFixedTable) Init(run int), lines 228-244, of a table of np
\* rows whose Epoch.Max the caller has set to emax.
FixedTableInit(np, emax, o, a) ==
    LET f0 == [np |-> np, Order |-> <<>>, TrialSt |-> 0, TrialEd |-> 0,
               Trial |-> CtrInit([Cur |-> 0, Max |-> 0]),
               Epoch |-> CtrInit([Cur |-> 0, Max |-> emax])]
        f1 == NewOrder(f0, o, a)
    IN  [f1 EXCEPT !.Trial.Cur = TrialAtInit(f1)]

\* An MPIFixedTable on a table with rows after Init(run).
InitEnv ==
    /\ NoStepper
    /\ NoLogs
    /\ NoFIx
    /\ NoNetData
    /\ \E np \in 1..MaxTrials, emax \in 0..MaxEpochs :
          \E o \in RowOrders(np), a \in AllocN(np) :
             ft = FixedTableInit(np, emax, o, a)
    /\ fthist = [op |-> "Init", hit |-> FALSE, permuted |-> FALSE]

\* Mutant: the trial counter is left at the 0 Incr resets it to.
TrialAfterMax_Zero(f) == 0

\* Line 293: ft.Trial.Cur = ft.TrialSt "key to reset always to start"
TrialAfterMax(f) == f.TrialSt

\* func (ft *MPIFixedTable) Step() bool, lines 289-300; PermuteOrder gives
\* any order of the rows.
Step ==
    /\ ft.Epoch.Cur < MaxEpochs
    /\ LET trial == CtrIncr(ft.Trial)
           epoch == CtrIncr(ft.Epoch)
       IN  IF trial.hit
           THEN /\ \E o \in RowOrders(ft.np) :
                     ft' = [ft EXCEPT !.Trial = [trial.ctr EXCEPT !.Cur = TrialAfterMax(ft)],
                                      !.Order = o,
                                      !.Epoch = epoch.ctr]
                /\ fthist' = [op |-> "Step", hit |-> TRUE, permuted |-> TRUE]
           ELSE /\ ft' = [ft EXCEPT !.Trial = trial.ctr]
                /\ fthist' = [op |-> "Step", hit |-> FALSE, permuted |-> FALSE]
    /\ UNCHANGED <<looperVars, logsVars, ringVars, netVars>>

NextEnv == Step

SpecEnv == InitEnv /\ [][NextEnv]_vars

\* The step is a call of Step().
StepTaken == fthist'.op = "Step" /\ <<ft, fthist>>' # <<ft, fthist>>

\* The trial counter is within [TrialSt, TrialEd).
TrialInRange(f) == f.Trial.Cur \in f.TrialSt..(f.TrialEd - 1)

====
